---- MODULE Spec2Model ----
(***************************************************************************)
(* JanMitra backend: the Case lifecycle engine (reports/views.py,          *)
(* reports/admin.py), the SLA auto-escalation command                      *)
(* (auto_escalate_cases.py) and the device-bound session model             *)
(* (authentication/models.py, authentication/backends.py).                 *)
(*                                                                         *)
(* Time is counted in hours.  A manual operation is a request handler      *)
(* that reads the case row into memory, later writes the whole row back    *)
(* (Model.save() without update_fields) and then inserts its history row.  *)
(* The sweep fetches its candidates once and then handles them one by      *)
(* one, each inside one transaction holding the row lock.                  *)
(***************************************************************************)
EXTENDS Integers, Sequences, FiniteSets, TLC

VARIABLES
    now,        \* timezone.now(), in hours
    cases,      \* table cases: sequence of rows, the case id is the index
    history,    \* table case_status_history: per case, rows in insertion order
    incidents,  \* table incidents: one row per case, same index
    audit,      \* table audit_logs: per case, entries written for that case
    reqs,       \* request handlers of the manual operations, per worker
    sweeps,     \* running instances of the auto_escalate_cases command
    succ,       \* per case: operations that reported success
    users,      \* table users
    sessions,   \* table device_sessions, in insertion order
    invites,    \* table invite_codes, in insertion order
    alerts,     \* audit entries written by the authenticator (success = False)
    lastAuth,   \* the authentication request being answered
    calls       \* calls of DeviceSession.create_session under way, per login handler

caseVars == <<cases, history, incidents, audit, reqs, sweeps, succ>>
authVars == <<users, sessions, invites, alerts, lastAuth, calls>>
vars == <<now, cases, history, incidents, audit, reqs, sweeps, succ,
          users, sessions, invites, alerts, lastAuth, calls>>

----------------------------------------------------------------------------
(* Bounds of the model *)

MaxCases == 2        \* cases created, one operation at a time
ConcCases == 1       \* cases created, overlapping operations
MaxTime == 36        \* the clock stops here
TickHours == 12      \* the clock advances in steps of this many hours
MaxRows == 3         \* history rows of a case when a request may still start
MaxSessions == 2     \* rows of device_sessions
MaxInvites == 1      \* rows of invite_codes
MaxRegistered == 1   \* citizens registered on top of the seeded accounts
MaxLoginSessions == 3 \* rows of device_sessions where logins overlap

(* Program constants *)

SLA_HOURS == 24
LEVEL_2 == 2
LEVEL_1 == 1
LEVEL_0 == 0

OPEN == "open"
SOLVED == "solved"
REJECTED == "rejected"
CLOSED == "closed"
CaseStatusValues == {OPEN, SOLVED, REJECTED, CLOSED}

Null == "null"          \* a NULL status or user reference
NoTime == 0 - 1         \* a NULL timestamp
NoLevel == 0 - 1        \* a NULL level


----------------------------------------------------------------------------
(* Users and roles *)

ROLE_LEVEL_0 == "level_0"
ROLE_LEVEL_1 == "level_1"
ROLE_LEVEL_2 == "level_2"
ROLE_LEVEL_2_CAPTAIN == "level_2_captain"
ROLE_LEVEL_3 == "level_3"
AUTHORITY_ROLES == {ROLE_LEVEL_0, ROLE_LEVEL_1, ROLE_LEVEL_2, ROLE_LEVEL_2_CAPTAIN}

ACTIVE == "active"
SUSPENDED == "suspended"
REVOKED == "revoked"
PENDING == "pending"

\* the accounts seed_users creates, one per role
DEMO_USERS ==
    [janmitra_demo |-> [role |-> ROLE_LEVEL_3, is_staff |-> FALSE],
     level2 |-> [role |-> ROLE_LEVEL_2, is_staff |-> FALSE],
     captain |-> [role |-> ROLE_LEVEL_2_CAPTAIN, is_staff |-> FALSE],
     level1 |-> [role |-> ROLE_LEVEL_1, is_staff |-> FALSE],
     level0 |-> [role |-> ROLE_LEVEL_0, is_staff |-> TRUE]]

UserIds == DOMAIN DEMO_USERS

is_level_0(u) == users[u].role = ROLE_LEVEL_0
is_level_1(u) == users[u].role = ROLE_LEVEL_1
is_level_2(u) == users[u].role = ROLE_LEVEL_2
is_level_2_captain(u) == users[u].role = ROLE_LEVEL_2_CAPTAIN
is_janmitra(u) == users[u].role = ROLE_LEVEL_3
is_authority(u) == users[u].role \in AUTHORITY_ROLES
is_revoked(u) == users[u].status = REVOKED

\* permissions.IsAuthenticated.has_permission (every modelled user is authenticated)
IsAuthenticated(u) == ~(is_revoked(u) \/ ~users[u].is_active)

\* permissions.IsLevel1OrLevel2.has_permission
IsLevel1OrLevel2(u) ==
    IF is_revoked(u) \/ ~users[u].is_active THEN FALSE ELSE is_authority(u)

----------------------------------------------------------------------------
(* The cases table *)

CaseIds == 1..MaxCases

\* Case.objects.create(...) with the deadline set to the creation time
NewCaseDueAtOnce(t) ==
    [status |-> OPEN, current_level |-> LEVEL_2, sla_deadline |-> t,
     escalation_count |-> 0, last_escalated_at |-> NoTime,
     solved_at |-> NoTime, solved_by |-> Null, solution_notes |-> "",
     rejected_at |-> NoTime, rejected_by |-> Null, rejection_reason |-> "",
     is_deleted |-> FALSE]

\* Case.objects.create(...) in IncidentBroadcastView.post, with the field defaults
NewCase(t) ==
    [status |-> OPEN, current_level |-> LEVEL_2, sla_deadline |-> t + SLA_HOURS,
     escalation_count |-> 0, last_escalated_at |-> NoTime,
     solved_at |-> NoTime, solved_by |-> Null, solution_notes |-> "",
     rejected_at |-> NoTime, rejected_by |-> Null, rejection_reason |-> "",
     is_deleted |-> FALSE]

HistoryRow(fs, ts, fl, tl, by, auto) ==
    [from_status |-> fs, to_status |-> ts, from_level |-> fl, to_level |-> tl,
     changed_by |-> by, is_auto_escalation |-> auto]

\* SoftDeleteManager.get_queryset: Case.objects sees only the rows not soft-deleted
Objects == {c \in DOMAIN cases : ~cases[c].is_deleted}

IsTerminal(st) == st \in {SOLVED, REJECTED, CLOSED}


----------------------------------------------------------------------------
(* Visibility: reports/models.py visible_cases_for_user, CaseListView *)

visible_cases_for_user(u) ==
    IF is_level_2(u) /\ ~is_level_2_captain(u)
      THEN {c \in Objects : cases[c].current_level = 2}
    ELSE IF is_level_2_captain(u)
      THEN {c \in Objects : cases[c].current_level >= 2}
    ELSE IF is_level_1(u)
      THEN {c \in Objects : cases[c].current_level = 1}
    ELSE IF is_level_0(u)
      THEN {c \in Objects : cases[c].current_level = 0}
    ELSE {}

\* CaseListView.get_queryset, no status filter
CaseListView_get_queryset(u) ==
    IF is_janmitra(u) THEN {} ELSE visible_cases_for_user(u)

\* GET /incidents/cases/: the permission class, then the queryset
listVisibleCases(u) ==
    IF IsLevel1OrLevel2(u) THEN CaseListView_get_queryset(u) ELSE {}

----------------------------------------------------------------------------
(* Manual operations: the request handlers of views.py and admin.py *)

Workers == {"w1", "w2"}
Sweepers == {"s1", "s2"}
Notes == {"fixed"}
Reasons == {"", "spam"}

IdleReq ==
    [pc |-> "idle", op |-> "none", c |-> 0, actor |-> Null, arg |-> "",
     old |-> NewCase(0), mem |-> NewCase(0), result |-> "none"]

\* the handler holds the row it read
Loaded(op, c, actor, arg) ==
    [pc |-> "loaded", op |-> op, c |-> c, actor |-> actor, arg |-> arg,
     old |-> cases[c], mem |-> cases[c], result |-> "none"]

\* the handler returns early
Refused(op, c, actor, arg, result) ==
    [pc |-> "responded", op |-> op, c |-> c, actor |-> actor, arg |-> arg,
     old |-> NewCase(0), mem |-> NewCase(0), result |-> result]

\* SolveCaseView.post without its status check
SolveCheckAnyStatus(c, actor) ==
    IF ~IsLevel1OrLevel2(actor) THEN "forbidden"
    ELSE IF c \notin Objects THEN "not_found"
    ELSE "ok"

\* SolveCaseView.post up to the first assignment: permission, lookup, status check
SolveCheck(c, actor) ==
    IF ~IsLevel1OrLevel2(actor) THEN "forbidden"
    ELSE IF c \notin Objects THEN "not_found"
    ELSE IF cases[c].status # OPEN THEN "not_open"
    ELSE "ok"

\* ForwardCaseView.post up to the first assignment
ForwardCheck(c, actor) ==
    IF ~IsLevel1OrLevel2(actor) THEN "forbidden"
    ELSE IF c \notin Objects THEN "not_found"
    ELSE IF cases[c].status # OPEN THEN "not_open"
    ELSE IF cases[c].current_level <= LEVEL_0 THEN "highest_level"
    ELSE "ok"

\* RejectCaseView.post without its check of the reason
RejectCheckAnyReason(c, actor, reason) ==
    IF ~IsLevel1OrLevel2(actor) THEN "forbidden"
    ELSE IF c \notin Objects THEN "not_found"
    ELSE IF cases[c].status # OPEN THEN "not_open"
    ELSE "ok"

\* RejectCaseView.post up to the first assignment
RejectCheck(c, actor, reason) ==
    IF ~IsLevel1OrLevel2(actor) THEN "forbidden"
    ELSE IF c \notin Objects THEN "not_found"
    ELSE IF cases[c].status # OPEN THEN "not_open"
    ELSE IF reason = "" THEN "reason_required"
    ELSE "ok"

\* CaseAdmin.force_escalate_case: the two skips at the head of the loop body
ForceEscalateCheck(c, actor) ==
    IF ~users[actor].is_staff THEN "forbidden"
    ELSE IF c \notin Objects THEN "not_found"
    ELSE IF cases[c].status # OPEN THEN "skipped_not_open"
    ELSE IF cases[c].current_level = LEVEL_0 THEN "skipped_level_0"
    ELSE "ok"

\* CaseAdmin.force_close_case: the skip at the head of the loop body
ForceCloseCheck(c, actor) ==
    IF ~users[actor].is_staff THEN "forbidden"
    ELSE IF c \notin Objects THEN "not_found"
    ELSE IF cases[c].status \in {SOLVED, REJECTED, CLOSED} THEN "skipped_terminal"
    ELSE "ok"

\* the assignments each handler makes to its in-memory case before case.save()
SolveAssign(m, actor, notes, t) ==
    [m EXCEPT !.status = SOLVED, !.solved_at = t, !.solved_by = actor,
              !.solution_notes = notes]

\* the assignments of ForwardCaseView.post without the new deadline
ForwardAssignKeepDeadline(m, t) ==
    [m EXCEPT !.current_level = m.current_level - 1,
              !.escalation_count = m.escalation_count + 1,
              !.last_escalated_at = t]

ForwardAssign(m, t) ==
    [m EXCEPT !.current_level = m.current_level - 1,
              !.escalation_count = m.escalation_count + 1,
              !.last_escalated_at = t,
              !.sla_deadline = t + SLA_HOURS]

RejectAssign(m, actor, reason, t) ==
    [m EXCEPT !.status = REJECTED, !.rejected_at = t, !.rejected_by = actor,
              !.rejection_reason = reason]

\* the assignments of force_escalate_case without the count of the escalation
ForceEscalateAssignNoCount(m, t) ==
    [m EXCEPT !.current_level = m.current_level - 1,
              !.last_escalated_at = t,
              !.sla_deadline = t + SLA_HOURS]

ForceEscalateAssign(m, t) ==
    [m EXCEPT !.current_level = m.current_level - 1,
              !.escalation_count = m.escalation_count + 1,
              !.last_escalated_at = t,
              !.sla_deadline = t + SLA_HOURS]

ForceCloseAssign(m) == [m EXCEPT !.status = CLOSED]

Assign(r, t) ==
    CASE r.op = "solve" -> SolveAssign(r.mem, r.actor, r.arg, t)
      [] r.op = "forward" -> ForwardAssign(r.mem, t)
      [] r.op = "reject" -> RejectAssign(r.mem, r.actor, r.arg, t)
      [] r.op = "force_escalate" -> ForceEscalateAssign(r.mem, t)
      [] r.op = "force_close" -> ForceCloseAssign(r.mem)

\* the CaseStatusHistory.objects.create(...) of each handler
SolveRow(r) == HistoryRow(r.old.status, SOLVED, NoLevel, NoLevel, r.actor, FALSE)
ForwardRow(r) ==
    HistoryRow(r.mem.status, r.mem.status, r.old.current_level,
               r.mem.current_level, r.actor, FALSE)
RejectRow(r) == HistoryRow(r.old.status, REJECTED, NoLevel, NoLevel, r.actor, FALSE)
ForceEscalateRow(r) ==
    HistoryRow(r.old.status, r.mem.status, r.old.current_level,
               r.mem.current_level, r.actor, FALSE)
ForceCloseRow(r) ==
    HistoryRow(r.old.status, CLOSED, r.old.current_level, r.old.current_level,
               r.actor, FALSE)

RowOf(r) ==
    CASE r.op = "solve" -> SolveRow(r)
      [] r.op = "forward" -> ForwardRow(r)
      [] r.op = "reject" -> RejectRow(r)
      [] r.op = "force_escalate" -> ForceEscalateRow(r)
      [] r.op = "force_close" -> ForceCloseRow(r)

\* the admin actions write an audit entry after the history row, the views none
WritesAudit(op) == op \in {"force_escalate", "force_close"}

\* A handler starts: it is refused at once, or holds the row it read.
Begin(w, op, c, actor, arg, check) ==
    /\ reqs[w].pc = "idle"
    /\ reqs' = [reqs EXCEPT ![w] =
          IF check = "ok" THEN Loaded(op, c, actor, arg)
                          ELSE Refused(op, c, actor, arg, check)]
    /\ UNCHANGED <<now, cases, history, incidents, audit, sweeps, succ>>
    /\ UNCHANGED authVars

SolveCaseView_post(w, c, actor, notes) ==
    Begin(w, "solve", c, actor, notes, SolveCheck(c, actor))

ForwardCaseView_post(w, c, actor, reason) ==
    Begin(w, "forward", c, actor, reason, ForwardCheck(c, actor))

RejectCaseView_post(w, c, actor, reason) ==
    Begin(w, "reject", c, actor, reason, RejectCheck(c, actor, reason))

force_escalate_case(w, c, actor) ==
    Begin(w, "force_escalate", c, actor, "", ForceEscalateCheck(c, actor))

force_close_case(w, c, actor) ==
    Begin(w, "force_close", c, actor, "", ForceCloseCheck(c, actor))

\* the rows of run sw still waiting for their turn
Waiting(sw) == {sw.sel[k].id : k \in {j \in DOMAIN sw.sel : j >= sw.i}}

\* case.save(): every column of the row is written from the handler's copy
Save(w) ==
    /\ reqs[w].pc = "loaded"
    /\ LET m == Assign(reqs[w], now) IN
         /\ cases' = [cases EXCEPT ![reqs[w].c] = m]
         /\ reqs' = [reqs EXCEPT ![w].pc = "saved", ![w].mem = m]
    /\ sweeps' = [s \in Sweepers |->
          IF sweeps[s].pc = "run" /\ reqs[w].c \in Waiting(sweeps[s])
            THEN [sweeps[s] EXCEPT !.dirty = @ \cup {reqs[w].c}]
            ELSE sweeps[s]]
    /\ UNCHANGED <<now, history, incidents, audit, succ>>
    /\ UNCHANGED authVars

\* CaseStatusHistory.objects.create(...), the audit entry of the admin actions,
\* and the response
CreateHistory(w) ==
    /\ reqs[w].pc = "saved"
    /\ LET r == reqs[w] IN
         /\ history' = [history EXCEPT ![r.c] = Append(@, RowOf(r))]
         /\ audit' = [audit EXCEPT ![r.c] = IF WritesAudit(r.op) THEN @ + 1 ELSE @]
         /\ succ' = [succ EXCEPT ![r.c] = @ + 1]
    /\ reqs' = [reqs EXCEPT ![w].pc = "responded", ![w].result = "ok"]
    /\ UNCHANGED <<now, cases, incidents, sweeps>>
    /\ UNCHANGED authVars

\* CaseStatusHistory.objects.create(...) raises, or the worker is killed
\* before it: the row written by case.save() is already committed, the
\* handler ends without a history row and answers with a server error
CreateHistoryFails(w) ==
    /\ reqs[w].pc = "saved"
    /\ reqs' = [reqs EXCEPT ![w].pc = "responded", ![w].result = "server_error"]
    /\ UNCHANGED <<now, cases, history, incidents, audit, sweeps, succ>>
    /\ UNCHANGED authVars

\* the response is sent and the handler is gone
Respond(w) ==
    /\ reqs[w].pc = "responded"
    /\ reqs' = [reqs EXCEPT ![w] = IdleReq]
    /\ UNCHANGED <<now, cases, history, incidents, audit, sweeps, succ>>
    /\ UNCHANGED authVars


----------------------------------------------------------------------------
(* Incident submission, the clock, soft delete *)

Texts == {"", "  ", "pothole on Main St"}
Blank == {"", "  "}

\* str.strip() on the texts drawn here
strip(t) == IF t \in Blank THEN "" ELSE t

Submitters == {"janmitra_demo"}

\* no history row at creation
CreationRowsNone(actor) == <<>>

\* IncidentBroadcastView.post: the CaseStatusHistory row written with the case
CreationRows(actor) == <<HistoryRow(Null, OPEN, NoLevel, LEVEL_2, actor, FALSE)>>

\* IncidentBroadcastView.post: the three rows are created in one transaction
IncidentBroadcastView_post(actor, text, cap) ==
    /\ IsAuthenticated(actor)
    /\ Len(cases) < cap
    /\ IF strip(text) = ""
         THEN UNCHANGED <<cases, history, incidents, audit, succ>>
         ELSE /\ incidents' = Append(incidents,
                    [submitted_by |-> actor, text_content |-> strip(text)])
              /\ cases' = Append(cases, NewCase(now))
              /\ history' = Append(history, CreationRows(actor))
              /\ audit' = Append(audit, 0)
              /\ succ' = Append(succ, 0)
    /\ UNCHANGED <<now, reqs, sweeps>>
    /\ UNCHANGED authVars

\* No request handler outlives a clock step: gunicorn kills a worker after
\* timeout = 300 seconds.
NoRequestInFlight == \A w \in Workers : reqs[w].pc = "idle"

Tick(step, cap) ==
    /\ NoRequestInFlight
    /\ lastAuth.pc = "idle"
    /\ now + step <= cap
    /\ now' = now + step
    /\ UNCHANGED caseVars
    /\ UNCHANGED authVars

----------------------------------------------------------------------------
(* The auto_escalate_cases command *)

\* A run of the command: now and dry_run as read at its start, the fetched
\* rows sel, the index i of the next row, the counters of the summary,
\* notifications (the calls of NotificationService made by the run; the
\* command makes none).  Kept
\* for the properties: log (the outcome per row), dirty (rows a manual
\* operation wrote between the fetch and the command's turn), len0 (history
\* lengths at the start), round, first and mid (a run repeated at once).
IdleSweep ==
    [pc |-> "idle", now |-> 0, dry_run |-> FALSE, sel |-> <<>>, i |-> 1,
     log |-> <<>>, escalated |-> 0, skipped |-> 0, errors |-> 0,
     notifications |-> 0,
     dirty |-> {}, len0 |-> <<>>, round |-> 1,
     first |-> [sel |-> <<>>, log |-> <<>>, dry |-> FALSE, len0 |-> <<>>],
     mid |-> <<>>]

Max(S) == CHOOSE x \in S : \A y \in S : y <= x

\* Meta.ordering = ['-created_at']: the newest case first
RECURSIVE NewestFirst(_)
NewestFirst(S) ==
    IF S = {} THEN <<>> ELSE <<Max(S)>> \o NewestFirst(S \ {Max(S)})

\* the filter of the queryset without the comparison of the deadline
ExpiredCasesAnyDeadline(t) ==
    {c \in Objects : /\ cases[c].status = OPEN
                     /\ cases[c].current_level # LEVEL_0}

\* Command.handle: the filter of the expired_cases queryset
ExpiredCases(t) ==
    {c \in Objects : /\ cases[c].status = OPEN
                     /\ cases[c].sla_deadline < t
                     /\ cases[c].current_level # LEVEL_0}

\* the rows the loop of Command.handle iterates over, as fetched
Fetch(t) ==
    LET ids == NewestFirst(ExpiredCases(t))
    IN  [k \in 1..Len(ids) |-> [id |-> ids[k], row |-> cases[ids[k]]]]

\* Case.can_escalate: an open case above level 0 can be escalated
can_escalate(row) == row.status = OPEN /\ row.current_level > LEVEL_0

\* Case.is_sla_expired(now)
is_sla_expired(row, t) == row.sla_deadline < t

\* Case.calculate_sla_deadline_for_level(level, now)
calculate_sla_deadline_for_level(level, t) == t + SLA_HOURS

\* the next level when escalation stops at level 1
NextLevelStopsAtOne(old_level) ==
    IF old_level = LEVEL_2 THEN LEVEL_1 ELSE NoLevel

\* Command._escalate_case: the level the case moves to, NoLevel when there is none
NextLevel(old_level) ==
    IF old_level = LEVEL_2 THEN LEVEL_1
    ELSE IF old_level = LEVEL_1 THEN LEVEL_0
    ELSE NoLevel

\* Command._escalate_case, the checks made on the row as fetched by the loop
PreCheck(row, t) ==
    IF NextLevel(row.current_level) = NoLevel THEN "level_0"
    ELSE IF ~can_escalate(row) THEN "cannot_escalate"
    ELSE IF ~is_sla_expired(row, t) THEN "not_expired"
    ELSE "ok"

\* the locked re-read without the comparison of levels
LockedCheckNoLevel(locked, old_level) ==
    IF locked.status # OPEN THEN "status_changed" ELSE "ok"

\* the locked re-read without the comparison of statuses
LockedCheckNoStatus(locked, old_level) ==
    IF locked.current_level # old_level THEN "level_changed" ELSE "ok"

\* Command._escalate_case, the checks made on the row re-read under the lock
LockedCheck(locked, old_level) ==
    IF locked.status # OPEN THEN "status_changed"
    ELSE IF locked.current_level # old_level THEN "level_changed"
    ELSE "ok"

\* the update of the locked row without a new deadline
EscalateAssignSameDeadline(locked, new_level, t) ==
    [locked EXCEPT !.current_level = new_level,
                   !.escalation_count = locked.escalation_count + 1,
                   !.last_escalated_at = t]

\* Command._escalate_case: the update of the locked row
EscalateAssign(locked, new_level, t) ==
    [locked EXCEPT !.current_level = new_level,
                   !.escalation_count = locked.escalation_count + 1,
                   !.last_escalated_at = t,
                   !.sla_deadline = calculate_sla_deadline_for_level(new_level, t)]

\* Command._escalate_case: what the call does with one fetched row:
\* "escalated" (row written), "dry" (reported, nothing written), a skip, or
\* "error" (the locked re-read finds no row)
Outcome(snap, t, dry) ==
    LET pre == PreCheck(snap.row, t) IN
    IF pre # "ok" THEN pre
    ELSE IF dry THEN "dry"
    ELSE IF snap.id \notin Objects THEN "error"
    ELSE LET lk == LockedCheck(cases[snap.id], snap.row.current_level) IN
         IF lk # "ok" THEN lk ELSE "escalated"

\* Command.handle up to the loop: now is read once, the candidates are fetched
handle_start(s, dry) ==
    /\ sweeps[s].pc = "idle"
    /\ sweeps' = [sweeps EXCEPT ![s] =
          [IdleSweep EXCEPT !.pc = "run", !.now = now, !.dry_run = dry,
                            !.sel = Fetch(now),
                            !.len0 = [c \in DOMAIN history |-> Len(history[c])]]]
    /\ UNCHANGED <<now, cases, history, incidents, audit, reqs, succ>>
    /\ UNCHANGED authVars

\* one iteration of the loop of Command.handle: _escalate_case on the next row
escalate_case(s) ==
    /\ sweeps[s].pc = "run"
    /\ sweeps[s].i <= Len(sweeps[s].sel)
    /\ LET sw == sweeps[s]
           snap == sw.sel[sw.i]
           c == snap.id
           old_level == snap.row.current_level
           new_level == NextLevel(old_level)
           res == Outcome(snap, sw.now, sw.dry_run)
       IN
         /\ IF res = "escalated"
              THEN /\ cases' = [cases EXCEPT ![c] =
                          EscalateAssign(cases[c], new_level, sw.now)]
                   /\ history' = [history EXCEPT ![c] =
                          Append(@, HistoryRow(OPEN, OPEN, old_level, new_level,
                                               Null, TRUE))]
                   /\ audit' = [audit EXCEPT ![c] = @ + 1]
                   /\ succ' = [succ EXCEPT ![c] = @ + 1]
              ELSE UNCHANGED <<cases, history, audit, succ>>
         /\ sweeps' = [sweeps EXCEPT ![s] =
              [sw EXCEPT !.i = sw.i + 1,
                         !.log = Append(sw.log, res),
                         !.escalated = IF res \in {"escalated", "dry"}
                                         THEN sw.escalated + 1 ELSE sw.escalated,
                         !.errors = IF res = "error" THEN sw.errors + 1 ELSE sw.errors,
                         !.skipped = IF res \in {"escalated", "dry", "error"}
                                       THEN sw.skipped ELSE sw.skipped + 1]]
    /\ UNCHANGED <<now, incidents, reqs>>
    /\ UNCHANGED authVars

\* the except branch of the loop without the count of the error
CountErrorNot(sw) ==
    [sw EXCEPT !.i = sw.i + 1, !.log = Append(sw.log, "error")]

\* Command.handle, the except branch of the loop: the error is counted and
\* the loop goes on with the next row
CountError(sw) ==
    [sw EXCEPT !.i = sw.i + 1, !.log = Append(sw.log, "error"),
               !.errors = sw.errors + 1]

\* one iteration of the loop in which a write of _escalate_case raises
\* (the update of the row, the history row or the audit entry): the
\* exception leaves the transaction.atomic block, which rolls back what the
\* block wrote, and is caught by the loop
escalate_case_raises(s) ==
    /\ sweeps[s].pc = "run"
    /\ sweeps[s].i <= Len(sweeps[s].sel)
    /\ Outcome(sweeps[s].sel[sweeps[s].i], sweeps[s].now, sweeps[s].dry_run) = "escalated"
    /\ sweeps' = [sweeps EXCEPT ![s] = CountError(sweeps[s])]
    /\ UNCHANGED <<now, cases, history, incidents, audit, reqs, succ>>
    /\ UNCHANGED authVars

\* the command is run again as soon as its loop is over, at the same now
handle_again(s, dry) ==
    /\ sweeps[s].pc = "run"
    /\ sweeps[s].i > Len(sweeps[s].sel)
    /\ sweeps[s].round = 1
    /\ LET sw == sweeps[s] IN
       sweeps' = [sweeps EXCEPT ![s] =
          [IdleSweep EXCEPT !.pc = "run", !.now = sw.now, !.dry_run = dry,
                            !.sel = Fetch(sw.now),
                            !.len0 = [c \in DOMAIN history |-> Len(history[c])],
                            !.round = 2,
                            !.first = [sel |-> sw.sel, log |-> sw.log,
                                       dry |-> sw.dry_run, len0 |-> sw.len0],
                            !.mid = <<cases, history>>]]
    /\ UNCHANGED <<now, cases, history, incidents, audit, reqs, succ>>
    /\ UNCHANGED authVars

\* the loop of Command.handle is over: the summary is written
handle_finish(s) ==
    /\ sweeps[s].pc = "run"
    /\ sweeps[s].i > Len(sweeps[s].sel)
    /\ sweeps' = [sweeps EXCEPT ![s] = IdleSweep]
    /\ UNCHANGED <<now, cases, history, incidents, audit, reqs, succ>>
    /\ UNCHANGED authVars


\* The clock where the command is run at least once in every clock step:
\* it does not advance while a case is due for escalation.
TickAfterSweep(step, cap) ==
    /\ ExpiredCases(now) = {}
    /\ Tick(step, cap)

----------------------------------------------------------------------------
(* Sessions and the device-bound authenticator *)

Fingerprints == {"devA", "devB"}
Headers == {""} \cup Fingerprints      \* X-Device-Fingerprint, "" when absent
NoProfile == "no profile"
NoSession == 0 - 1

\* DeviceSession.hash_fingerprint: SHA-256 of the fingerprint, as a hex string
hash_fingerprint(f) == "sha256:" \o f

\* DeviceSession.verify_fingerprint
verify_fingerprint(sess, f) == sess.device_fingerprint_hash = hash_fingerprint(f)

\* DeviceSession.objects.filter(user=u, is_active=True)
ActiveSessions(u) ==
    {k \in DOMAIN sessions : sessions[k].user = u /\ sessions[k].is_active}

\* cls.objects.create(...) in create_session; blacklisted: the refresh token
\* issued with the session is in the token blacklist
NewSession(u, f, t) ==
    [user |-> u, device_fingerprint_hash |-> hash_fingerprint(f),
     is_active |-> TRUE, invalidation_reason |-> "", invalidated_at |-> NoTime,
     last_activity_at |-> t, blacklisted |-> FALSE]

\* queryset.update(is_active=False, invalidated_at=now, invalidation_reason=reason)
Invalidated(S, reason, t) ==
    [k \in DOMAIN sessions |->
        IF k \in S
          THEN [sessions[k] EXCEPT !.is_active = FALSE, !.invalidated_at = t,
                                   !.invalidation_reason = reason]
          ELSE sessions[k]]

\* create_session without the update of the active sessions
create_session_insert_only(u, f, t) == Append(sessions, NewSession(u, f, t))

\* DeviceSession.create_session: table device_sessions after the call
create_session(u, f, t) ==
    Append(Invalidated(ActiveSessions(u), "NEW_DEVICE", t), NewSession(u, f, t))

\* DeviceBoundJWTAuthentication._check_user_status
check_user_status(u) ==
    IF is_revoked(u) THEN "access_revoked"
    ELSE IF users[u].status = SUSPENDED THEN "account_suspended"
    ELSE IF ~users[u].is_active THEN "account_inactive"
    ELSE "ok"

\* _validate_device_binding with the session looked up before the header
validate_device_binding_session_first(u, f) ==
    IF ActiveSessions(u) = {} THEN "no_active_session"
    ELSE IF f = "" THEN "missing_device_fingerprint"
    ELSE IF Cardinality(ActiveSessions(u)) > 1 THEN "multiple_objects_returned"
    ELSE LET k == CHOOSE k \in ActiveSessions(u) : TRUE IN
         IF ~verify_fingerprint(sessions[k], f) THEN "device_mismatch" ELSE "ok"

\* DeviceBoundJWTAuthentication._validate_device_binding
validate_device_binding(u, f) ==
    IF f = "" THEN "missing_device_fingerprint"
    ELSE IF ActiveSessions(u) = {} THEN "no_active_session"
    ELSE IF Cardinality(ActiveSessions(u)) > 1 THEN "multiple_objects_returned"
    ELSE LET k == CHOOSE k \in ActiveSessions(u) : TRUE IN
         IF ~verify_fingerprint(sessions[k], f) THEN "device_mismatch" ELSE "ok"

\* authenticate with the device binding validated before the user status
AuthCodeDeviceFirst(u, f) ==
    LET dv == IF is_janmitra(u) THEN validate_device_binding(u, f) ELSE "ok" IN
    IF dv # "ok" THEN dv ELSE check_user_status(u)

\* DeviceBoundJWTAuthentication.authenticate, for a structurally valid token
\* of user u: the error code, "ok" when the request is authenticated
AuthCode(u, f) ==
    LET st == check_user_status(u) IN
    IF st # "ok" THEN st
    ELSE IF is_janmitra(u) THEN validate_device_binding(u, f)
    ELSE "ok"

AuditEntry(event, u) == [event_type |-> event, actor |-> u, success |-> FALSE]

\* the AuditLog.log calls of _check_user_status and _validate_device_binding
AuthAlerts(u, f) ==
    LET code == AuthCode(u, f) IN
    IF code = "access_revoked"
      THEN alerts \cup {AuditEntry("AUTH_TOKEN_REVOKED", u)}
    ELSE IF code = "device_mismatch"
      THEN alerts \cup {AuditEntry("SYSTEM_SECURITY_ALERT", u)}
    ELSE alerts

\* DeviceBoundJWTAuthentication._update_activity, reached only when no check raised
update_activity(u, f, t) ==
    IF AuthCode(u, f) = "ok" /\ is_janmitra(u)
      THEN [k \in DOMAIN sessions |->
              IF k \in ActiveSessions(u)
                THEN [sessions[k] EXCEPT !.last_activity_at = t]
                ELSE sessions[k]]
      ELSE sessions

\* whether _update_activity ran its update
Touches(u, f) == AuthCode(u, f) = "ok" /\ is_janmitra(u) /\ ActiveSessions(u) # {}

NoAuth ==
    [pc |-> "idle", op |-> "none", actor |-> Null, user |-> Null, fp |-> "",
     code |-> "none", touched |-> FALSE, created |-> NoSession, before |-> {},
     token |-> NoSession]

\* the answer to an authentication request: op, the user it was about (the
\* caller, unless said otherwise), the fingerprint presented, the result
\* code, whether last_activity_at was written, the session created, the
\* sessions of the user active before
Answer(op, u, f, code, touched, created, before) ==
    [pc |-> "responded", op |-> op, actor |-> u, user |-> u, fp |-> f,
     code |-> code, touched |-> touched, created |-> created, before |-> before,
     token |-> NoSession]

\* a request to any authenticated endpoint: authenticate() and nothing else
authenticate(u, f) ==
    /\ lastAuth.pc = "idle"
    /\ u \in DOMAIN users
    /\ lastAuth' = Answer("authenticate", u, f, AuthCode(u, f), Touches(u, f),
                          NoSession, {})
    /\ alerts' = AuthAlerts(u, f)
    /\ sessions' = update_activity(u, f, now)
    /\ UNCHANGED <<now, users, invites>>
    /\ UNCHANGED <<caseVars, calls>>

\* AuthorityLoginSerializer.validate after the password check
AuthorityLoginCheck(u) ==
    IF ~users[u].has_password THEN "invalid_credentials"
    ELSE IF ~is_authority(u) /\ ~is_janmitra(u) THEN "invalid_role"
    ELSE IF is_revoked(u) THEN "access_revoked"
    ELSE IF users[u].status = SUSPENDED THEN "account_suspended"
    ELSE IF ~users[u].is_active THEN "account_inactive"
    ELSE "ok"

\* AuthorityLoginSerializer.validate and create: login with identifier and password
AuthorityLoginSerializer_create(u, f) ==
    /\ lastAuth.pc = "idle"
    /\ u \in DOMAIN users
    /\ LET code == AuthorityLoginCheck(u) IN
       IF code = "ok" /\ f # ""
         THEN /\ sessions' = create_session(u, f, now)
              /\ lastAuth' = Answer("authority_login", u, f, code, FALSE,
                                    Len(sessions) + 1, ActiveSessions(u))
         ELSE /\ sessions' = sessions
              /\ lastAuth' = Answer("authority_login", u, f, code, FALSE,
                                    NoSession, {})
    /\ UNCHANGED <<now, users, invites, alerts>>
    /\ UNCHANGED <<caseVars, calls>>

\* JanMitraProfile.objects.get(device_fingerprint_hash=sha256(value)).user
ProfileUsers(f) ==
    {u \in DOMAIN users : users[u].device_fingerprint_hash = hash_fingerprint(f)}

\* JanMitraLoginSerializer.validate_device_fingerprint
JanMitraLoginCheck(f) ==
    IF ProfileUsers(f) = {} THEN "no_account"
    ELSE IF Cardinality(ProfileUsers(f)) > 1 THEN "multiple_objects_returned"
    ELSE LET u == CHOOSE u \in ProfileUsers(f) : TRUE IN
         IF is_revoked(u) THEN "access_revoked"
         ELSE IF users[u].status = SUSPENDED THEN "account_suspended"
         ELSE IF ~users[u].is_active THEN "account_inactive"
         ELSE "ok"

\* JanMitraLoginSerializer.validate_device_fingerprint and create: device login
JanMitraLoginSerializer_create(f) ==
    /\ lastAuth.pc = "idle"
    /\ f # ""
    /\ LET code == JanMitraLoginCheck(f) IN
       IF code = "ok"
         THEN LET u == CHOOSE u \in ProfileUsers(f) : TRUE IN
              /\ sessions' = create_session(u, f, now)
              /\ lastAuth' = Answer("janmitra_login", u, f, code, FALSE,
                                    Len(sessions) + 1, ActiveSessions(u))
         ELSE /\ sessions' = sessions
              /\ lastAuth' = Answer("janmitra_login", Null, f, code, FALSE,
                                    NoSession, {})
    /\ UNCHANGED <<now, users, invites, alerts>>
    /\ UNCHANGED <<caseVars, calls>>

\* InviteCode.is_valid
InviteCode_is_valid(inv, t) ==
    IF inv.is_deleted THEN FALSE
    ELSE IF inv.use_count >= inv.max_uses THEN FALSE
    ELSE IF t > inv.expires_at THEN FALSE
    ELSE TRUE

\* InviteCode.use
InviteCode_use(inv, u, t) ==
    [inv EXCEPT !.use_count = inv.use_count + 1, !.used_at = t, !.used_by = u,
                !.is_used = (inv.use_count + 1 >= inv.max_uses)]

\* permissions.CanIssueInviteCode.has_permission
CanIssueInviteCode(u) == is_authority(u)

ExpiresInDays == {1}
MaxUses == {1, 2}
HOURS_PER_DAY == 24

\* InviteCodeCreateView.post: InviteCode.generate_code, then max_uses
InviteCodeCreateView_post(actor, days, max_uses) ==
    /\ lastAuth.pc = "idle"
    /\ AuthCode(actor, "") = "ok"
    /\ IsLevel1OrLevel2(actor) /\ CanIssueInviteCode(actor)
    /\ Len(invites) < MaxInvites
    /\ invites' = Append(invites,
          [issued_by |-> actor, expires_at |-> now + days * HOURS_PER_DAY,
           max_uses |-> max_uses, use_count |-> 0, is_used |-> FALSE,
           used_at |-> NoTime, used_by |-> Null, is_deleted |-> FALSE])
    /\ UNCHANGED <<now, users, sessions, alerts, lastAuth>>
    /\ UNCHANGED <<caseVars, calls>>

\* the identifiers create_janmitra gives to new citizens, in order
RegisteredIds == <<"JM-1", "JM-2">>
Registered == {k \in DOMAIN RegisteredIds : RegisteredIds[k] \in DOMAIN users}

\* JanMitraRegistrationSerializer.validate_device_fingerprint: an active
\* account whose profile holds the hash of this fingerprint
DeviceRegistered(f) ==
    \E u \in DOMAIN users :
        /\ users[u].device_fingerprint_hash = hash_fingerprint(f)
        /\ users[u].is_active
        /\ users[u].status = ACTIVE

\* JanMitraRegistrationSerializer.validate_invite_code, validate_device_fingerprint
RegistrationCheck(i, f) ==
    IF i \notin DOMAIN invites THEN "invalid_invite"
    ELSE IF ~InviteCode_is_valid(invites[i], now) THEN "invite_not_valid"
    ELSE IF DeviceRegistered(f) THEN "device_registered"
    ELSE "ok"

\* UserManager.create_janmitra: the user row and its JanMitraProfile; the
\* profile column device_fingerprint_hash receives the argument as passed
create_janmitra(device_fingerprint) ==
    [role |-> ROLE_LEVEL_3, is_staff |-> FALSE, status |-> ACTIVE,
     is_active |-> TRUE, has_password |-> FALSE,
     device_fingerprint_hash |-> device_fingerprint]

\* JanMitraRegistrationSerializer.create
JanMitraRegistrationSerializer_create(i, f) ==
    /\ lastAuth.pc = "idle"
    /\ f # ""
    /\ Cardinality(Registered) < MaxRegistered
    /\ LET code == RegistrationCheck(i, f)
           u == RegisteredIds[Cardinality(Registered) + 1]
       IN
       IF code = "ok"
         THEN /\ users' = [v \in DOMAIN users \cup {u} |->
                             IF v = u THEN create_janmitra(f) ELSE users[v]]
              /\ invites' = [invites EXCEPT ![i] = InviteCode_use(@, u, now)]
              /\ sessions' = create_session(u, f, now)
              /\ lastAuth' = Answer("register", u, f, code, FALSE,
                                    Len(sessions) + 1, {})
         ELSE /\ UNCHANGED <<users, invites, sessions>>
              /\ lastAuth' = Answer("register", Null, f, code, FALSE, NoSession, {})
    /\ UNCHANGED <<now, alerts>>
    /\ UNCHANGED <<caseVars, calls>>

\* the sessions whose refresh token user u can still present
LiveTokens(u) ==
    {k \in DOMAIN sessions : sessions[k].user = u /\ ~sessions[k].blacklisted}

\* LogoutView.post with LogoutSerializer.save: the request is authenticated,
\* the refresh token of session k is blacklisted, the session named in the
\* token is set inactive whatever its state
LogoutSerializer_save(u, f, k) ==
    /\ lastAuth.pc = "idle"
    /\ u \in DOMAIN users
    /\ k \in LiveTokens(u)
    /\ LET code == AuthCode(u, f)
           seen == update_activity(u, f, now)
       IN
       /\ sessions' =
            IF code = "ok"
              THEN [seen EXCEPT ![k] =
                      [@ EXCEPT !.is_active = FALSE, !.invalidated_at = now,
                                !.invalidation_reason = "LOGOUT",
                                !.blacklisted = TRUE]]
              ELSE seen
       /\ lastAuth' = [Answer("logout", u, f, code, Touches(u, f), NoSession, {})
                          EXCEPT !.token = k]
    /\ alerts' = AuthAlerts(u, f)
    /\ UNCHANGED <<now, users, invites>>
    /\ UNCHANGED <<caseVars, calls>>

\* the refresh token is accepted on its signature and the blacklist alone
RefreshCheckTokenOnly(k, f) ==
    IF k \notin DOMAIN sessions \/ sessions[k].blacklisted THEN "token_not_valid"
    ELSE "ok"

\* DeviceBoundTokenRefreshSerializer.validate for the latest refresh token
\* carrying session_id = k: the token validation of the parent class, then
\* the session named in the token, then the fingerprint when one is given
RefreshCheck(k, f) ==
    IF k \notin DOMAIN sessions \/ sessions[k].blacklisted THEN "token_not_valid"
    ELSE IF ~sessions[k].is_active THEN "session_invalidated"
    ELSE IF f # "" /\ ~verify_fingerprint(sessions[k], f) THEN "device_mismatch"
    ELSE "ok"

\* TokenRefreshView.post.  The parent validation rotates the token
\* (ROTATE_REFRESH_TOKENS, BLACKLIST_AFTER_ROTATION): the token presented is
\* blacklisted before the session is looked at, and the new token reaches
\* the caller only when the checks pass.
TokenRefreshView_post(k, f) ==
    /\ lastAuth.pc = "idle"
    /\ k \in DOMAIN sessions
    /\ LET code == RefreshCheck(k, f) IN
       /\ sessions' =
            IF code \in {"session_invalidated", "device_mismatch"}
              THEN [sessions EXCEPT ![k].blacklisted = TRUE]
              ELSE sessions
       /\ lastAuth' = [Answer("refresh", sessions[k].user, f, code, FALSE, NoSession, {})
                          EXCEPT !.token = k]
    /\ UNCHANGED <<now, users, invites, alerts>>
    /\ UNCHANGED <<caseVars, calls>>

\* InvalidateSessionView.post: 404 for a session of another user, 400 for an
\* inactive one, else DeviceSession.invalidate('SECURITY')
InvalidateCheck(u, f, k) ==
    IF AuthCode(u, f) # "ok" THEN AuthCode(u, f)
    ELSE IF k \notin DOMAIN sessions \/ sessions[k].user # u THEN "not_found"
    ELSE IF ~sessions[k].is_active THEN "already_inactive"
    ELSE "ok"

InvalidateSessionView_post(u, f, k) ==
    /\ lastAuth.pc = "idle"
    /\ u \in DOMAIN users
    /\ k \in 1..MaxSessions
    /\ LET code == InvalidateCheck(u, f, k)
           seen == update_activity(u, f, now)
       IN
       /\ sessions' =
            IF code = "ok"
              THEN [seen EXCEPT ![k] =
                      [@ EXCEPT !.is_active = FALSE, !.invalidated_at = now,
                                !.invalidation_reason = "SECURITY"]]
              ELSE seen
       /\ lastAuth' = Answer("invalidate", u, f, code, Touches(u, f), NoSession, {})
    /\ alerts' = AuthAlerts(u, f)
    /\ UNCHANGED <<now, users, invites>>
    /\ UNCHANGED <<caseVars, calls>>

\* permissions.IsLevel1.has_permission
IsLevel1(u) == is_level_1(u)

\* permissions.CanRevokeUser: has_permission and has_object_permission
CanRevokeUser(u, obj) ==
    /\ is_level_1(u)
    /\ obj # u
    /\ ~is_level_1(obj)

RevokeReasons == {"", "abuse"}

\* RevokeUserView.post up to the call of revoke_access
RevokeCheck(actor, target, reason) ==
    IF AuthCode(actor, "") # "ok" THEN AuthCode(actor, "")
    ELSE IF ~IsLevel1(actor) THEN "forbidden"
    ELSE IF reason = "" THEN "reason_required"
    ELSE IF target \notin DOMAIN users THEN "not_found"
    ELSE IF ~CanRevokeUser(actor, target) THEN "forbidden"
    ELSE IF is_revoked(target) THEN "already_revoked"
    ELSE "ok"

\* revoke_access without the assignment of the status
revoke_access_inactive_only(row) == [row EXCEPT !.is_active = FALSE]

\* User.revoke_access: the user row
revoke_access(row) == [row EXCEPT !.status = REVOKED, !.is_active = FALSE]

\* RevokeUserView.post
RevokeUserView_post(actor, target, reason) ==
    /\ lastAuth.pc = "idle"
    /\ actor \in DOMAIN users
    /\ LET code == RevokeCheck(actor, target, reason) IN
       /\ IF code = "ok"
            THEN /\ users' = [users EXCEPT ![target] = revoke_access(@)]
                 /\ sessions' = Invalidated(ActiveSessions(target), "ACCESS_REVOKED", now)
            ELSE UNCHANGED <<users, sessions>>
       /\ lastAuth' = [Answer("revoke", target, "", code, FALSE, NoSession, {})
                          EXCEPT !.actor = actor]
    /\ alerts' = AuthAlerts(actor, "")
    /\ UNCHANGED <<now, invites>>
    /\ UNCHANGED <<caseVars, calls>>

\* the response is sent
AuthRespond ==
    /\ lastAuth.pc = "responded"
    /\ lastAuth' = NoAuth
    /\ UNCHANGED <<now, users, sessions, invites, alerts>>
    /\ UNCHANGED <<caseVars, calls>>

\* Login handlers that overlap.  DeviceSession.create_session is two
\* statements, each committed on its own: the update of the active sessions
\* of the user, then the insert of the new session.
LoginHandlers == {"p1", "p2"}

IdleCall == [pc |-> "idle", user |-> Null, fp |-> ""]

\* the calls of create_session that have still to insert their row
PendingInserts == {p \in LoginHandlers : calls[p].pc = "updated"}

\* AuthorityLoginSerializer.create up to the first statement of
\* create_session: cls.objects.filter(user=user, is_active=True).update(...)
create_session_update(p, u, f) ==
    /\ calls[p].pc = "idle"
    /\ u \in DOMAIN users
    /\ f # ""
    /\ AuthorityLoginCheck(u) = "ok"
    /\ sessions' = Invalidated(ActiveSessions(u), "NEW_DEVICE", now)
    /\ calls' = [calls EXCEPT ![p] = [pc |-> "updated", user |-> u, fp |-> f]]
    /\ UNCHANGED <<now, users, invites, alerts, lastAuth>>
    /\ UNCHANGED caseVars

\* the second statement of create_session: cls.objects.create(...)
create_session_insert(p) ==
    /\ calls[p].pc = "updated"
    /\ sessions' = Append(sessions, NewSession(calls[p].user, calls[p].fp, now))
    /\ calls' = [calls EXCEPT ![p] = IdleCall]
    /\ UNCHANGED <<now, users, invites, alerts, lastAuth>>
    /\ UNCHANGED caseVars

\* Registrations that overlap.  The view runs the serializer outside any
\* transaction: validate_invite_code reads the invite row and keeps the
\* instance, create() creates the user and calls use() on that instance.

\* JanMitraRegistrationSerializer.validate_invite_code and
\* validate_device_fingerprint: the handler holds the invite it read
register_validate(p, i, f) ==
    /\ calls[p].pc = "idle"
    /\ f # ""
    /\ RegistrationCheck(i, f) = "ok"
    /\ calls' = [calls EXCEPT ![p] =
          [pc |-> "validated", user |-> Null, fp |-> f, inv |-> i,
           invite |-> invites[i]]]
    /\ UNCHANGED <<now, users, sessions, invites, alerts, lastAuth>>
    /\ UNCHANGED caseVars

\* JanMitraRegistrationSerializer.create: User.objects.create_janmitra(...)
register_create_janmitra(p) ==
    /\ calls[p].pc = "validated"
    /\ Cardinality(Registered) < Len(RegisteredIds)
    /\ LET u == RegisteredIds[Cardinality(Registered) + 1] IN
         /\ users' = [v \in DOMAIN users \cup {u} |->
                        IF v = u THEN create_janmitra(calls[p].fp) ELSE users[v]]
         /\ calls' = [calls EXCEPT ![p].pc = "created", ![p].user = u]
    /\ UNCHANGED <<now, sessions, invites, alerts, lastAuth>>
    /\ UNCHANGED caseVars

\* JanMitraRegistrationSerializer.create from invite.use(user) to the
\* response: use() counts on the instance the handler holds and save()
\* writes every column of it; then the session is created
register_use(p) ==
    /\ calls[p].pc = "created"
    /\ invites' = [invites EXCEPT ![calls[p].inv] =
                     InviteCode_use(calls[p].invite, calls[p].user, now)]
    /\ sessions' = create_session(calls[p].user, calls[p].fp, now)
    /\ calls' = [calls EXCEPT ![p] = IdleCall]
    /\ UNCHANGED <<now, users, alerts, lastAuth>>
    /\ UNCHANGED caseVars

----------------------------------------------------------------------------
(* Specifications *)

\* seed_users: every demo account is ACTIVE, has a password and no JanMitraProfile
InitUsers ==
    [u \in UserIds |->
        [role |-> DEMO_USERS[u].role, is_staff |-> DEMO_USERS[u].is_staff,
         status |-> ACTIVE, is_active |-> TRUE, has_password |-> TRUE,
         device_fingerprint_hash |-> NoProfile]]

Init ==
    /\ now = 0
    /\ cases = <<>>
    /\ history = <<>>
    /\ incidents = <<>>
    /\ audit = <<>>
    /\ succ = <<>>
    /\ reqs = [w \in Workers |-> IdleReq]
    /\ sweeps = [s \in Sweepers |-> IdleSweep]
    /\ users = InitUsers
    /\ sessions = <<>>
    /\ invites = <<>>
    /\ alerts = {}
    /\ lastAuth = NoAuth
    /\ calls = [p \in LoginHandlers |-> IdleCall]

Quiet == NoRequestInFlight /\ \A s \in Sweepers : sweeps[s].pc = "idle"

\* the callers and workers drawn in the specifications
ViewActors == {"captain", "janmitra_demo"}
AdminActors == {"level0", "level2"}
ForwardReasons == {"needs senior review"}
SeqWorkers == {"w1"}
SeqSweepers == {"s1"}

\* Every operation runs start to finish before the next one starts.
NextSeq ==
    \/ Quiet /\ \E a \in Submitters, t \in Texts :
          IncidentBroadcastView_post(a, t, MaxCases)
    \/ Quiet /\ Tick(TickHours, MaxTime)
    \/ Quiet /\ \E w \in SeqWorkers, c \in CaseIds, a \in ViewActors, n \in Notes :
          SolveCaseView_post(w, c, a, n)
    \/ Quiet /\ \E w \in SeqWorkers, c \in CaseIds, a \in ViewActors, r \in ForwardReasons :
          ForwardCaseView_post(w, c, a, r)
    \/ Quiet /\ \E w \in SeqWorkers, c \in CaseIds, a \in ViewActors, r \in Reasons :
          RejectCaseView_post(w, c, a, r)
    \/ Quiet /\ \E w \in SeqWorkers, c \in CaseIds, a \in AdminActors :
          force_escalate_case(w, c, a)
    \/ Quiet /\ \E w \in SeqWorkers, c \in CaseIds, a \in AdminActors :
          force_close_case(w, c, a)
    \/ \E w \in Workers : Save(w)
    \/ \E w \in Workers : CreateHistory(w)
    \/ \E w \in Workers : Respond(w)
    \/ Quiet /\ \E s \in SeqSweepers, d \in BOOLEAN : handle_start(s, d)
    \/ \E s \in Sweepers : escalate_case(s)
    \/ \E s \in Sweepers, d \in BOOLEAN : handle_again(s, d)
    \/ \E s \in Sweepers : handle_finish(s)

SpecSeq == Init /\ [][NextSeq]_vars

ConcCaseIds == 1..ConcCases
ConcViewActors == {"captain"}
ConcAdminActors == {"level0"}

\* the case has room for one more history row
Room(c) == c \in DOMAIN history => Len(history[c]) < MaxRows

\* two handlers are told apart by what they do, not by their names
FreeWorker(w) == w = "w2" => reqs["w1"].pc # "idle"
FreeSweeper(s) == s = "s2" => sweeps["s1"].pc # "idle"

\* Request handlers and command runs overlap.
NextConc ==
    \/ \E a \in Submitters, t \in Texts : IncidentBroadcastView_post(a, t, ConcCases)
    \/ Tick(TickHours, MaxTime)
    \/ \E w \in Workers, c \in ConcCaseIds, a \in ConcViewActors, n \in Notes :
          FreeWorker(w) /\ Room(c) /\ SolveCaseView_post(w, c, a, n)
    \/ \E w \in Workers, c \in ConcCaseIds, a \in ConcViewActors, r \in ForwardReasons :
          FreeWorker(w) /\ Room(c) /\ ForwardCaseView_post(w, c, a, r)
    \/ \E w \in Workers, c \in ConcCaseIds, a \in ConcViewActors, r \in Reasons :
          FreeWorker(w) /\ Room(c) /\ RejectCaseView_post(w, c, a, r)
    \/ \E w \in Workers, c \in ConcCaseIds, a \in ConcAdminActors :
          FreeWorker(w) /\ Room(c) /\ force_escalate_case(w, c, a)
    \/ \E w \in Workers, c \in ConcCaseIds, a \in ConcAdminActors :
          FreeWorker(w) /\ Room(c) /\ force_close_case(w, c, a)
    \/ \E w \in Workers : Save(w)
    \/ \E w \in Workers : CreateHistory(w)
    \/ \E w \in Workers : Respond(w)
    \/ \E s \in SeqSweepers : handle_start(s, FALSE)
    \/ \E s \in SeqSweepers : escalate_case(s)
    \/ \E s \in SeqSweepers : handle_finish(s)

SpecConc == Init /\ [][NextConc]_vars

LoginUsers == {"janmitra_demo", "captain"}
AuthUsers == {"janmitra_demo", "JM-1", "level1"}
Revokers == {"level1", "captain", "level0"}
Issuers == {"captain", "janmitra_demo"}

\* the rows of device_sessions are bounded
SessionRoom == Len(sessions) < MaxSessions

\* Accounts, sessions and authenticated requests, one request at a time,
\* all within one hour.
NextAuth ==
    \/ \E u \in AuthUsers, f \in Headers : authenticate(u, f)
    \/ SessionRoom /\ \E u \in LoginUsers, f \in Headers : AuthorityLoginSerializer_create(u, f)
    \/ SessionRoom /\ \E f \in Fingerprints : JanMitraLoginSerializer_create(f)
    \/ SessionRoom /\ \E i \in 1..MaxInvites, f \in Fingerprints :
          JanMitraRegistrationSerializer_create(i, f)
    \/ \E a \in Issuers, d \in ExpiresInDays, m \in MaxUses : InviteCodeCreateView_post(a, d, m)
    \/ \E u \in AuthUsers, f \in Headers, k \in 1..MaxSessions : LogoutSerializer_save(u, f, k)
    \/ \E u \in AuthUsers, f \in Headers, k \in 1..MaxSessions : InvalidateSessionView_post(u, f, k)
    \/ \E a \in Revokers, t \in AuthUsers, r \in RevokeReasons : RevokeUserView_post(a, t, r)
    \/ AuthRespond

SpecAuth == Init /\ [][NextAuth]_vars

LoginRoom == Len(sessions) + Cardinality(PendingInserts) < MaxLoginSessions

\* Logins of the same accounts overlap; authenticated requests in between.
NextLogin ==
    \/ \E p \in LoginHandlers, u \in LoginUsers, f \in Fingerprints :
          LoginRoom /\ create_session_update(p, u, f)
    \/ \E p \in LoginHandlers : create_session_insert(p)
    \/ \E u \in LoginUsers, f \in Headers : authenticate(u, f)
    \/ AuthRespond

SpecLogin == Init /\ [][NextLogin]_vars


\* One case, every operation run start to finish, and the insert of the
\* history row may fail.
NextFail ==
    \/ Quiet /\ \E a \in Submitters, t \in Texts :
          IncidentBroadcastView_post(a, t, ConcCases)
    \/ Quiet /\ Tick(TickHours, MaxTime)
    \/ Quiet /\ \E w \in SeqWorkers, c \in ConcCaseIds, a \in ViewActors, n \in Notes :
          SolveCaseView_post(w, c, a, n)
    \/ Quiet /\ \E w \in SeqWorkers, c \in ConcCaseIds, a \in ViewActors, r \in ForwardReasons :
          ForwardCaseView_post(w, c, a, r)
    \/ Quiet /\ \E w \in SeqWorkers, c \in ConcCaseIds, a \in ViewActors, r \in Reasons :
          RejectCaseView_post(w, c, a, r)
    \/ Quiet /\ \E w \in SeqWorkers, c \in ConcCaseIds, a \in AdminActors :
          force_escalate_case(w, c, a)
    \/ Quiet /\ \E w \in SeqWorkers, c \in ConcCaseIds, a \in AdminActors :
          force_close_case(w, c, a)
    \/ \E w \in Workers : Save(w)
    \/ \E w \in Workers : CreateHistory(w)
    \/ \E w \in Workers : CreateHistoryFails(w)
    \/ \E w \in Workers : Respond(w)
    \/ Quiet /\ \E s \in SeqSweepers : handle_start(s, FALSE)
    \/ \E s \in SeqSweepers : escalate_case(s)
    \/ \E s \in SeqSweepers : handle_finish(s)

SpecFail == Init /\ [][NextFail]_vars

\* Invite codes are issued and used for registration while the clock runs.
NextInvite ==
    \/ \E a \in Issuers, d \in ExpiresInDays, m \in MaxUses : InviteCodeCreateView_post(a, d, m)
    \/ Tick(TickHours, MaxTime)
    \/ SessionRoom /\ \E i \in 1..MaxInvites, f \in Fingerprints :
          JanMitraRegistrationSerializer_create(i, f)
    \/ \E u \in AuthUsers, f \in Headers : authenticate(u, f)
    \/ AuthRespond

SpecInvite == Init /\ [][NextInvite]_vars

\* Logins, refreshes, logouts and revocations, one request at a time.
NextRefresh ==
    \/ \E u \in AuthUsers, f \in Headers : authenticate(u, f)
    \/ SessionRoom /\ \E u \in LoginUsers, f \in Headers : AuthorityLoginSerializer_create(u, f)
    \/ \E k \in 1..MaxSessions, f \in Headers : TokenRefreshView_post(k, f)
    \/ \E u \in AuthUsers, f \in Headers, k \in 1..MaxSessions : LogoutSerializer_save(u, f, k)
    \/ \E a \in Revokers, t \in AuthUsers, r \in RevokeReasons : RevokeUserView_post(a, t, r)
    \/ AuthRespond

SpecRefresh == Init /\ [][NextRefresh]_vars

SweepMaxTime == 72   \* the clock stops here where only the command runs

\* Runs of the command overlap; no manual operation.
NextSweeps ==
    \/ \E a \in Submitters, t \in Texts : IncidentBroadcastView_post(a, t, MaxCases)
    \/ Tick(TickHours, SweepMaxTime)
    \/ \E s \in Sweepers, d \in BOOLEAN : FreeSweeper(s) /\ handle_start(s, d)
    \/ \E s \in Sweepers : escalate_case(s)
    \/ \E s \in Sweepers : handle_finish(s)

SpecSweeps == Init /\ [][NextSweeps]_vars

\* Runs of the command in which the writes of a case may raise.
NextSweepErr ==
    \/ \E a \in Submitters, t \in Texts : IncidentBroadcastView_post(a, t, MaxCases)
    \/ Tick(TickHours, SweepMaxTime)
    \/ \E s \in SeqSweepers, d \in BOOLEAN : handle_start(s, d)
    \/ \E s \in SeqSweepers : escalate_case(s)
    \/ \E s \in SeqSweepers : escalate_case_raises(s)
    \/ \E s \in SeqSweepers : handle_finish(s)

SpecSweepErr == Init /\ [][NextSweepErr]_vars

\* One request handler and runs of the command that overlap it.  The
\* command keeps being run, and each run and each request handler goes on
\* to its end (weak fairness).  Time advances up to the bound of the clock:
\* the clock steps between requests, so it is enabled again and again
\* rather than continuously, and its fairness is strong.
NextLive ==
    \/ \E a \in Submitters, t \in Texts : IncidentBroadcastView_post(a, t, ConcCases)
    \/ TickAfterSweep(TickHours, SweepMaxTime)
    \/ \E w \in SeqWorkers, c \in ConcCaseIds, a \in ConcViewActors, n \in Notes :
          Room(c) /\ SolveCaseView_post(w, c, a, n)
    \/ \E w \in SeqWorkers, c \in ConcCaseIds, a \in ConcViewActors, r \in ForwardReasons :
          Room(c) /\ ForwardCaseView_post(w, c, a, r)
    \/ \E w \in SeqWorkers : Save(w)
    \/ \E w \in SeqWorkers : CreateHistory(w)
    \/ \E w \in SeqWorkers : Respond(w)
    \/ \E s \in SeqSweepers : handle_start(s, FALSE)
    \/ \E s \in SeqSweepers : escalate_case(s)
    \/ \E s \in SeqSweepers : handle_finish(s)

SpecLive ==
    /\ Init
    /\ [][NextLive]_vars
    /\ SF_vars(TickAfterSweep(TickHours, SweepMaxTime))
    /\ WF_vars(\E w \in SeqWorkers : Save(w))
    /\ WF_vars(\E w \in SeqWorkers : CreateHistory(w))
    /\ WF_vars(\E w \in SeqWorkers : Respond(w))
    /\ WF_vars(\E s \in SeqSweepers : handle_start(s, FALSE))
    /\ WF_vars(\E s \in SeqSweepers : escalate_case(s))
    /\ WF_vars(\E s \in SeqSweepers : handle_finish(s))

\* One case and one request at a time, the request issued by an account
\* of any role.
RoleActors == {"captain", "level2", "level1", "level0", "janmitra_demo"}

NextRoles ==
    \/ Quiet /\ \E a \in Submitters, t \in Texts :
          IncidentBroadcastView_post(a, t, ConcCases)
    \/ Quiet /\ Tick(TickHours, MaxTime)
    \/ Quiet /\ \E w \in SeqWorkers, c \in ConcCaseIds, a \in RoleActors, n \in Notes :
          Room(c) /\ SolveCaseView_post(w, c, a, n)
    \/ Quiet /\ \E w \in SeqWorkers, c \in ConcCaseIds, a \in RoleActors, r \in ForwardReasons :
          Room(c) /\ ForwardCaseView_post(w, c, a, r)
    \/ Quiet /\ \E w \in SeqWorkers, c \in ConcCaseIds, a \in RoleActors, r \in Reasons :
          Room(c) /\ RejectCaseView_post(w, c, a, r)
    \/ \E w \in SeqWorkers : Save(w)
    \/ \E w \in SeqWorkers : CreateHistory(w)
    \/ \E w \in SeqWorkers : Respond(w)

SpecRoles == Init /\ [][NextRoles]_vars

\* Invite codes are issued and registrations with them overlap.
NextRegister ==
    \/ \E a \in Issuers, d \in ExpiresInDays, m \in MaxUses : InviteCodeCreateView_post(a, d, m)
    \/ Tick(TickHours, MaxTime)
    \/ \E p \in LoginHandlers, i \in 1..MaxInvites, f \in Fingerprints :
          register_validate(p, i, f)
    \/ \E p \in LoginHandlers : register_create_janmitra(p)
    \/ \E p \in LoginHandlers : register_use(p)

SpecRegister == Init /\ [][NextRegister]_vars

----------------------------------------------------------------------------
(* Properties *)

RefusalCodes ==
    {"not_open", "highest_level", "skipped_not_open", "skipped_level_0",
     "skipped_terminal", "forbidden", "reason_required"}

\* no handler is between its read of case c and its history row
Settled(c) == \A w \in Workers : reqs[w].c = c => reqs[w].pc \in {"idle", "responded"}

\* C1 (SpecSeq). Terminal stability: with operations run one at a time, once
\* a case is stored as SOLVED, REJECTED or CLOSED and the operation that
\* closed it is over, every step leaves the case row and its history rows as
\* they are, a manual operation started against the case is answered at
\* once with a refusal, and the command never fetches the case.
C1_TerminalStability ==
    [][\A c \in DOMAIN cases :
          (IsTerminal(cases[c].status) /\ Settled(c)) =>
             /\ cases'[c] = cases[c]
             /\ history'[c] = history[c]
             /\ \A w \in Workers :
                   (reqs[w].pc = "idle" /\ reqs'[w].pc # "idle" /\ reqs'[w].c = c)
                      => (reqs'[w].pc = "responded" /\ reqs'[w].result \in RefusalCodes)
             /\ \A s \in Sweepers :
                   \A k \in DOMAIN sweeps'[s].sel : sweeps'[s].sel[k].id # c]_vars

\* a manual operation was refused on a terminal case
C1_Witness ==
    \E w \in Workers :
        /\ reqs[w].pc = "responded"
        /\ reqs[w].result \in {"not_open", "skipped_not_open", "skipped_terminal"}
        /\ reqs[w].c \in DOMAIN cases
        /\ IsTerminal(cases[reqs[w].c].status)

\* C2 (SpecConc). Level monotonicity: no step raises the stored
\* current_level of a case; a step that changes it takes it from L to L - 1.
C2_LevelMonotone ==
    [][\A c \in DOMAIN cases :
          \/ cases'[c].current_level = cases[c].current_level
          \/ cases'[c].current_level = cases[c].current_level - 1]_vars

\* C3 (SpecAuth). Session singularity: right after a call that created a
\* session for user U, the created session is the one active session of U,
\* and every session of U that was active before the call is inactive with
\* reason NEW_DEVICE.
C3_SessionSingularity ==
    (lastAuth.pc = "responded" /\ lastAuth.created # NoSession) =>
        /\ ActiveSessions(lastAuth.user) = {lastAuth.created}
        /\ sessions[lastAuth.created].user = lastAuth.user
        /\ \A k \in lastAuth.before :
              /\ ~sessions[k].is_active
              /\ sessions[k].invalidation_reason = "NEW_DEVICE"

\* a session was created for a user who had an active session, and who has
\* an older session that was logged out or invalidated
C3_Witness ==
    /\ lastAuth.pc = "responded"
    /\ lastAuth.created # NoSession
    /\ lastAuth.before # {}

C5_HistoryComplete ==
    /\ DOMAIN history = DOMAIN cases
    /\ \A c \in DOMAIN cases : Len(history[c]) = 1 + succ[c]

\* a case with a successful operation, while another one is being refused
C5_Witness ==
    \E c \in DOMAIN cases :
        /\ succ[c] >= 1
        /\ \E w \in Workers :
              reqs[w].pc = "responded" /\ reqs[w].c = c /\ reqs[w].result # "ok"

\* the levels the role rule of section 4.3 shows to user u
RoleLevels(u) ==
    IF is_level_2_captain(u) THEN {LEVEL_2, LEVEL_1, LEVEL_0}
    ELSE IF is_level_2(u) THEN {LEVEL_2}
    ELSE IF is_level_1(u) THEN {LEVEL_1}
    ELSE IF is_level_0(u) THEN {LEVEL_0}
    ELSE {}

\* C6 (SpecSeq). Visibility partition: listVisibleCases(u) is the set of
\* non-deleted cases whose current_level is one the role of u is shown:
\* officer 2; captain 2, 1 and 0; LEVEL_1 1; LEVEL_0 0; citizen none.
C6_VisibilityPartition ==
    \A u \in UserIds :
        listVisibleCases(u) =
            {c \in DOMAIN cases :
                ~cases[c].is_deleted /\ cases[c].current_level \in RoleLevels(u)}

AuthenticatedOps == {"authenticate", "logout", "invalidate"}

\* C7 (SpecAuth). Revocation dominates device checks: a request
\* authenticated for a REVOKED user, whatever fingerprint header it carries,
\* is answered access_revoked, writes no session row and records no
\* device-mismatch alert.
C7_RevocationDominates ==
    [][\A u \in DOMAIN users :
          ( /\ is_revoked(u)
            /\ lastAuth.pc = "idle"
            /\ lastAuth'.pc = "responded"
            /\ lastAuth'.op \in AuthenticatedOps
            /\ lastAuth'.user = u )
          => /\ lastAuth'.code = "access_revoked"
             /\ ~lastAuth'.touched
             /\ sessions' = sessions
             /\ {a \in alerts' : a.event_type = "SYSTEM_SECURITY_ALERT"}
                  = {a \in alerts : a.event_type = "SYSTEM_SECURITY_ALERT"}]_vars

\* a revoked user was answered after presenting the fingerprint of one of
\* their sessions
C7_Witness ==
    /\ lastAuth.pc = "responded"
    /\ lastAuth.op = "authenticate"
    /\ lastAuth.user \in DOMAIN users
    /\ is_revoked(lastAuth.user)
    /\ lastAuth.fp # ""
    /\ \E k \in DOMAIN sessions :
          sessions[k].user = lastAuth.user /\ verify_fingerprint(sessions[k], lastAuth.fp)

\* C8 (SpecConc). No terminal state reverses: a status stored as SOLVED,
\* REJECTED or CLOSED is not overwritten by a different status.
C8_TerminalKept ==
    [][\A c \in DOMAIN cases :
          IsTerminal(cases[c].status) => cases'[c].status = cases[c].status]_vars

\* history rows of case c written by the command for the step from level l
AutoRows(c, l) ==
    {k \in DOMAIN history[c] :
        history[c][k].is_auto_escalation /\ history[c][k].from_level = l}

C11_OneActiveSession ==
    \A u \in DOMAIN users : Cardinality(ActiveSessions(u)) <= 1

\* the transitions the stored row of a case went through, with operations
\* run one at a time: one per level it moved down, one for its closing
Transitions(row) == row.escalation_count + (IF IsTerminal(row.status) THEN 1 ELSE 0)

\* C12 (SpecFail). Transition atomicity: the update of the case row and the
\* insert of its history row commit together or not at all; whenever no
\* handler is between its two writes on a case, also after an operation
\* that failed between them, the case has one history row for its creation
\* and one for each transition of its stored row.
C12_TransitionAtomic ==
    \A c \in DOMAIN cases :
        Settled(c) => Len(history[c]) = 1 + Transitions(cases[c])

\* C13 (SpecSeq). Replayable history: whenever no handler is between its
\* two writes on a case, the history rows of the case in insertion order
\* replay it: the first row is (null -> OPEN, null -> 2), every later row
\* starts from the status and level the row before it ended in, and the
\* last row ends in the stored status and current_level of the case.
C13_ReplayableHistory ==
    \A c \in DOMAIN cases :
        Settled(c) =>
            LET h == history[c] IN
            /\ Len(h) >= 1
            /\ h[1].from_status = Null /\ h[1].to_status = OPEN
            /\ h[1].from_level = NoLevel /\ h[1].to_level = LEVEL_2
            /\ \A k \in 2..Len(h) :
                  /\ h[k].from_status = h[k - 1].to_status
                  /\ h[k].from_level = h[k - 1].to_level
            /\ h[Len(h)].to_status = cases[c].status
            /\ h[Len(h)].to_level = cases[c].current_level

\* C14 (SpecSeq). Create: a step that adds a case adds exactly one
\* Incident, one Case at the same index with current_level 2, status OPEN,
\* escalation_count 0 and sla_deadline = creation time + 24h, and one
\* history row (null -> OPEN, null -> 2) by the submitter; the three tables
\* grow together, and no incident has an empty text: a submission with an
\* empty text creates none of the three.
C14_Create ==
    [][/\ Len(incidents') = Len(cases')
       /\ Len(history') = Len(cases')
       /\ Len(cases') \in {Len(cases), Len(cases) + 1}
       /\ Len(cases') = Len(cases) + 1 =>
            LET n == Len(cases') IN
            /\ \A c \in DOMAIN cases : cases'[c] = cases[c] /\ history'[c] = history[c]
            /\ cases'[n].status = OPEN
            /\ cases'[n].current_level = 2
            /\ cases'[n].escalation_count = 0
            /\ cases'[n].sla_deadline = now + 24
            /\ ~cases'[n].is_deleted
            /\ incidents'[n].text_content \notin Blank
            /\ history'[n] = <<[from_status |-> Null, to_status |-> OPEN,
                                from_level |-> NoLevel, to_level |-> 2,
                                changed_by |-> incidents'[n].submitted_by,
                                is_auto_escalation |-> FALSE]>>]_vars

\* a second case has just been created, twelve hours or more after the first
C14_Witness ==
    /\ Len(cases) = 2
    /\ now > 0
    /\ Len(history[2]) = 1
    /\ cases[2].sla_deadline = now + SLA_HOURS
    /\ cases[2].sla_deadline > cases[1].sla_deadline

\* the plain officer of level l among the seeded accounts
OfficerOf(l) == CHOOSE u \in UserIds : ~is_level_2_captain(u) /\ RoleLevels(u) = {l}

\* C15 (SpecSeq). Forward, with operations run one at a time: a forward
\* that goes ahead found the case OPEN at a level L > 0; its save sets
\* current_level to L - 1, escalation_count one higher and sla_deadline to
\* the forward time + 24h and leaves the status OPEN; it then writes one
\* history row (OPEN -> OPEN, L -> L - 1, actor the caller), after which the
\* officer of level L - 1 lists the case and the plain officer of level L
\* does not.  A forward on a case at level 0 is refused and changes nothing.
C15_Forward ==
    [][\A w \in Workers :
          LET r == reqs[w]
              q == reqs'[w]
          IN
          /\ (r.pc = "idle" /\ q.pc = "loaded" /\ q.op = "forward") =>
                /\ cases[q.c].status = OPEN
                /\ cases[q.c].current_level > 0
          /\ (r.pc = "idle" /\ q.pc # "idle" /\ q.op = "forward"
                /\ q.c \in DOMAIN cases /\ cases[q.c].current_level = 0) =>
                /\ q.pc = "responded"
                /\ q.result \in RefusalCodes
                /\ cases' = cases /\ history' = history
          /\ (r.pc = "loaded" /\ q.pc = "saved" /\ r.op = "forward") =>
                /\ cases'[r.c].current_level = cases[r.c].current_level - 1
                /\ cases'[r.c].escalation_count = cases[r.c].escalation_count + 1
                /\ cases'[r.c].sla_deadline = now + 24
                /\ cases'[r.c].status = OPEN
                /\ history' = history
          /\ (r.pc = "saved" /\ q.pc = "responded" /\ r.op = "forward") =>
                LET L == cases[r.c].current_level + 1 IN
                /\ q.result = "ok"
                /\ cases' = cases
                /\ history'[r.c] =
                      Append(history[r.c],
                             [from_status |-> OPEN, to_status |-> OPEN,
                              from_level |-> L, to_level |-> L - 1,
                              changed_by |-> r.actor, is_auto_escalation |-> FALSE])
                /\ r.c \in listVisibleCases(OfficerOf(L - 1))
                /\ r.c \notin listVisibleCases(OfficerOf(L))]_vars

\* a forward was refused on a case the captain had forwarded down to level 0
C15_Witness ==
    \E w \in Workers :
        /\ reqs[w].pc = "responded"
        /\ reqs[w].op = "forward"
        /\ reqs[w].result = "highest_level"
        /\ \E k \in DOMAIN history[reqs[w].c] :
              /\ history[reqs[w].c][k].changed_by = "captain"
              /\ history[reqs[w].c][k].to_level = 0

BindingDecision(u, f) ==
    IF f = "" THEN "missing_device_fingerprint"
    ELSE IF ~\E k \in DOMAIN sessions : sessions[k].user = u /\ sessions[k].is_active
      THEN "no_active_session"
    ELSE IF \E k \in DOMAIN sessions :
              /\ sessions[k].user = u /\ sessions[k].is_active
              /\ sessions[k].device_fingerprint_hash # hash_fingerprint(f)
      THEN "device_mismatch"
    ELSE "ok"

LoginOps == {"authority_login", "janmitra_login"}

\* C18 (SpecAuth). Revocation cascade: a revoke of user U that succeeds
\* stores U as REVOKED and sets every active session of U inactive with
\* reason ACCESS_REVOKED, so that U has no active session, and leaves every
\* other session as it is; from then on U stays REVOKED without an active
\* session, and every authenticated request and every login of U is
\* answered with an error and creates no session.
C18_RevocationCascade ==
    [][/\ ( /\ lastAuth.pc = "idle"
            /\ lastAuth'.pc = "responded"
            /\ lastAuth'.op = "revoke"
            /\ lastAuth'.code = "ok" ) =>
            LET u == lastAuth'.user IN
            /\ users'[u].status = REVOKED
            /\ \A v \in DOMAIN users \ {u} : users'[v] = users[v]
            /\ DOMAIN sessions' = DOMAIN sessions
            /\ \A k \in DOMAIN sessions :
                  IF sessions[k].user = u /\ sessions[k].is_active
                    THEN /\ ~sessions'[k].is_active
                         /\ sessions'[k].invalidation_reason = "ACCESS_REVOKED"
                    ELSE sessions'[k] = sessions[k]
            /\ ~\E k \in DOMAIN sessions' :
                  sessions'[k].user = u /\ sessions'[k].is_active
       /\ \A u \in DOMAIN users :
            users[u].status = REVOKED =>
              /\ users'[u].status = REVOKED
              /\ ~\E k \in DOMAIN sessions' :
                    sessions'[k].user = u /\ sessions'[k].is_active
              /\ ( /\ lastAuth.pc = "idle"
                   /\ lastAuth'.pc = "responded"
                   /\ lastAuth'.op \in AuthenticatedOps \cup LoginOps
                   /\ lastAuth'.user = u ) =>
                     /\ lastAuth'.code # "ok"
                     /\ lastAuth'.created = NoSession]_vars

\* a user who had an active session has just been revoked while another
\* user keeps an active session
C18_Witness ==
    /\ lastAuth.pc = "responded"
    /\ lastAuth.op = "revoke"
    /\ lastAuth.code = "ok"
    /\ is_revoked(lastAuth.user)
    /\ \E k \in DOMAIN sessions :
          /\ sessions[k].user = lastAuth.user
          /\ sessions[k].invalidation_reason = "ACCESS_REVOKED"
    /\ \E k \in DOMAIN sessions :
          sessions[k].user # lastAuth.user /\ sessions[k].is_active

\* the top authority role: the highest tier of the hierarchy
TopRole == ROLE_LEVEL_0

\* C19 (SpecAuth). Revocation permission: a revoke whose caller does not
\* hold the top authority role, or whose target holds it, fails and leaves
\* users and sessions as they are; a revoke that succeeds was called by a
\* holder of the top role on another user who does not hold it.
C19_RevokePermission ==
    [][( /\ lastAuth.pc = "idle"
         /\ lastAuth'.pc = "responded"
         /\ lastAuth'.op = "revoke"
         /\ lastAuth'.user \in DOMAIN users ) =>
         LET a == lastAuth'.actor
             t == lastAuth'.user
         IN
         /\ (users[a].role # TopRole \/ users[t].role = TopRole) =>
               /\ lastAuth'.code # "ok"
               /\ users' = users
               /\ sessions' = sessions
         /\ lastAuth'.code = "ok" =>
               /\ users[a].role = TopRole
               /\ users[t].role # TopRole
               /\ a # t]_vars

\* the validity rule of section 3 for invite code inv at time t
InviteValid(inv, t) ==
    ~inv.is_deleted /\ inv.use_count < inv.max_uses /\ t < inv.expires_at

\* C20 (SpecInvite). Invite validity: a registration is accepted only with
\* an invite code that is not soft-deleted, has use_count < max_uses and
\* has now < expires_at (a code is invalid from now = expires_at on); an
\* accepted use adds one to use_count and sets is_used exactly when
\* use_count reaches max_uses; a rejected registration leaves the invite
\* codes as they are and creates no user.
C20_InviteValidity ==
    [][( /\ lastAuth.pc = "idle"
         /\ lastAuth'.pc = "responded"
         /\ lastAuth'.op = "register" ) =>
         /\ lastAuth'.code = "ok" =>
               \E i \in DOMAIN invites :
                   /\ InviteValid(invites[i], now)
                   /\ invites'[i].use_count = invites[i].use_count + 1
                   /\ invites'[i].is_used = (invites'[i].use_count = invites[i].max_uses)
                   /\ \A j \in DOMAIN invites \ {i} : invites'[j] = invites[j]
                   /\ DOMAIN users' # DOMAIN users
         /\ lastAuth'.code \in {"invalid_invite", "invite_not_valid"} =>
               \E i \in 1..MaxInvites :
                   i \notin DOMAIN invites \/ ~InviteValid(invites[i], now)
         /\ lastAuth'.code # "ok" =>
               /\ invites' = invites
               /\ users' = users
               /\ sessions' = sessions]_vars

InvalidationReasons == {"LOGOUT", "NEW_DEVICE", "ACCESS_REVOKED"}

\* C21 (SpecRefresh). Refresh re-validates session liveness: a refresh with
\* the token of a session is answered with new tokens only when that
\* session is active and, when a fingerprint is given, its hash is the
\* hash stored in the session; once the session was set inactive by a
\* logout, by a newer login of its user or by a revocation, the refresh
\* fails; and after a citizen logged out of the active session, every
\* request of the citizen carrying a fingerprint is answered
\* no_active_session.
C21_RefreshRevalidates ==
    [][/\ ( /\ lastAuth.pc = "idle"
            /\ lastAuth'.pc = "responded"
            /\ lastAuth'.op = "refresh" ) =>
            LET k == lastAuth'.token IN
            /\ lastAuth'.code = "ok" =>
                  /\ sessions[k].is_active
                  /\ lastAuth'.fp # "" =>
                        sessions[k].device_fingerprint_hash = hash_fingerprint(lastAuth'.fp)
            /\ (~sessions[k].is_active
                  /\ sessions[k].invalidation_reason \in InvalidationReasons) =>
                  lastAuth'.code # "ok"
       /\ \A u \in DOMAIN users, k \in DOMAIN sessions :
            ( /\ lastAuth.pc = "idle"
              /\ lastAuth'.pc = "responded"
              /\ lastAuth'.op = "logout"
              /\ lastAuth'.code = "ok"
              /\ lastAuth'.user = u
              /\ lastAuth'.token = k
              /\ is_janmitra(u)
              /\ k \in ActiveSessions(u) ) =>
              /\ ~sessions'[k].is_active
              /\ sessions'[k].invalidation_reason = "LOGOUT"
              /\ \A f \in Fingerprints :
                    (AuthCode(u, f))' = "no_active_session"]_vars

\* a refresh was refused for the token of a session that a newer login of
\* its user had set inactive
C21_Witness ==
    /\ lastAuth.pc = "responded"
    /\ lastAuth.op = "refresh"
    /\ lastAuth.code = "session_invalidated"
    /\ sessions[lastAuth.token].invalidation_reason = "NEW_DEVICE"

\* C22 (SpecSweepErr). Sweep error boundary: when the escalation of a
\* candidate raises, the case, its history and its audit entries are as
\* before, the error counter grows by one and the run goes on with the next
\* candidate; a run ends only after its last candidate, and then
\* escalated + skipped + errors is the number of candidates.
C22_SweepErrorBoundary ==
    [][\A s \in Sweepers :
          LET sw == sweeps[s] IN
          /\ ( /\ sw.pc = "run" /\ sweeps'[s].pc = "run"
               /\ Len(sweeps'[s].log) = Len(sw.log) + 1
               /\ sweeps'[s].log[Len(sweeps'[s].log)] = "error" ) =>
               /\ cases' = cases
               /\ history' = history
               /\ audit' = audit
               /\ sweeps'[s].errors = sw.errors + 1
               /\ sweeps'[s].escalated = sw.escalated
               /\ sweeps'[s].skipped = sw.skipped
               /\ sweeps'[s].i = sw.i + 1
               /\ sweeps'[s].sel = sw.sel
          /\ sw.pc = "run" =>
               sw.escalated + sw.skipped + sw.errors = sw.i - 1
          /\ (sw.pc = "run" /\ sweeps'[s].pc = "idle") =>
               /\ sw.i = Len(sw.sel) + 1
               /\ sw.escalated + sw.skipped + sw.errors = Len(sw.sel)]_vars

\* a run has escalated a case after the escalation of the case before it raised
C22_Witness ==
    \E s \in Sweepers :
        /\ sweeps[s].pc = "run"
        /\ Len(sweeps[s].log) = 2
        /\ sweeps[s].log[1] = "error"
        /\ sweeps[s].log[2] = "escalated"

OfficerActed(c) ==
    \/ \E k \in DOMAIN history[c] : k > 1 /\ ~history[c][k].is_auto_escalation
    \/ \E w \in Workers : reqs[w].pc \in {"loaded", "saved"} /\ reqs[w].c = c

C25_ResolutionXorRejection ==
    /\ [](\A c \in DOMAIN cases :
            /\ ~(cases[c].solved_by # Null /\ cases[c].rejected_by # Null)
            /\ cases[c].solved_by # Null <=> cases[c].status = SOLVED
            /\ cases[c].rejected_by # Null <=> cases[c].status = REJECTED
            /\ cases[c].status = REJECTED => cases[c].rejection_reason # "")
    /\ [][\A w \in Workers :
            /\ (reqs[w].pc = "idle" /\ reqs'[w].pc # "idle"
                   /\ reqs'[w].op = "reject" /\ reqs'[w].arg = "") =>
                  /\ reqs'[w].pc = "responded"
                  /\ reqs'[w].result # "ok"
                  /\ cases' = cases /\ history' = history
            /\ (reqs[w].op = "reject" /\ reqs[w].arg = "" /\ reqs'[w] # reqs[w]) =>
                  /\ reqs'[w] = IdleReq
                  /\ cases' = cases /\ history' = history]_vars

\* a case both solved and rejected by overlapping requests: its history has
\* a row of each, and the row itself is REJECTED with the solver cleared
C25_Witness ==
    \E c \in DOMAIN cases :
        /\ cases[c].status = REJECTED
        /\ cases[c].solved_by = Null
        /\ cases[c].rejection_reason # ""
        /\ \E k \in DOMAIN history[c] : history[c][k].to_status = SOLVED
        /\ \E w \in Workers : /\ reqs[w].pc = "responded"
                               /\ reqs[w].op = "reject"
                               /\ reqs[w].arg = ""

\* C27 (SpecConc). Escalation counter: in every state, under every
\* interleaving of forward, force-escalate, the sweep, solve, reject and
\* force-close, each case has escalation_count = 2 - current_level, with
\* escalation_count and current_level both in {0, 1, 2}.
C27_EscalationCounter ==
    \A c \in DOMAIN cases :
        /\ cases[c].escalation_count = LEVEL_2 - cases[c].current_level
        /\ cases[c].escalation_count \in {0, 1, 2}
        /\ cases[c].current_level \in {LEVEL_0, LEVEL_1, LEVEL_2}

\* a forward that overlapped an automatic escalation: the history has two
\* rows from level 2 to level 1, and the row counts one escalation
C27_Witness ==
    \E c \in DOMAIN cases :
        /\ cases[c].current_level = LEVEL_1
        /\ cases[c].escalation_count = 1
        /\ \E j, k \in DOMAIN history[c] :
              /\ j # k
              /\ history[c][j].is_auto_escalation
              /\ ~history[c][k].is_auto_escalation
              /\ history[c][j].from_level = LEVEL_2
              /\ history[c][k].from_level = LEVEL_2
              /\ history[c][j].to_level = LEVEL_1
              /\ history[c][k].to_level = LEVEL_1

\* C26 (SpecRoles). Only a Level-2 Captain forwards or rejects: a forward
\* or reject request issued by an account of any other role is refused, and
\* no step of it changes the case or its history.
C26_CaptainOnly ==
    [][\A w \in Workers :
          ( /\ reqs[w].op \in {"forward", "reject"}
            /\ ~is_level_2_captain(reqs[w].actor) ) =>
              /\ cases' = cases
              /\ history' = history
              /\ reqs[w].result # "ok"]_vars

\* the rule of visible_cases_for_user on the row a request read
RowVisibleTo(u, row) ==
    /\ ~row.is_deleted
    /\ IF is_level_2(u) /\ ~is_level_2_captain(u) THEN row.current_level = 2
       ELSE IF is_level_2_captain(u) THEN row.current_level >= 2
       ELSE IF is_level_1(u) THEN row.current_level = 1
       ELSE IF is_level_0(u) THEN row.current_level = 0
       ELSE FALSE

\* C28 (SpecRoles). Actions follow visibility: a solve, forward or reject
\* request changes the case, or ends with success, only when the case was
\* in the visible set of the account at the time of the request.
C28_ActionsFollowVisibility ==
    [][\A w \in Workers :
          ( /\ reqs[w].pc \in {"loaded", "saved", "responded"}
            /\ reqs[w].op \in {"solve", "forward", "reject"}
            /\ ~RowVisibleTo(reqs[w].actor, reqs[w].old) ) =>
              /\ cases' = cases
              /\ history' = history
              /\ reqs[w].result # "ok"]_vars

\* the registrations that have succeeded: the accounts created by a
\* handler that has gone on to its response
Succeeded ==
    {k \in Registered :
        ~\E p \in LoginHandlers :
            calls[p].pc = "created" /\ calls[p].user = RegisteredIds[k]}

\* C29 (SpecRegister). Invite exhaustion: for an invite code with
\* max_uses = N, at most N registrations succeed and use_count never
\* exceeds max_uses, also when registrations with the same code overlap.
C29_InviteExhaustion ==
    \A i \in DOMAIN invites :
        /\ invites[i].use_count <= invites[i].max_uses
        /\ Cardinality(Succeeded) <= invites[i].max_uses

\* the citizen account u was registered from the device with fingerprint f:
\* the session created by its registration is bound to the hash of f
RegisteredWith(u, f) ==
    /\ u \in {RegisteredIds[k] : k \in Registered}
    /\ \E k \in DOMAIN sessions :
          /\ sessions[k].user = u
          /\ sessions[k].device_fingerprint_hash = hash_fingerprint(f)

\* C30 (SpecAuth). Registration/login round trip: the value stored as the
\* profile's device_fingerprint_hash of a registered citizen is the SHA-256
\* hash of the fingerprint, never the raw fingerprint; and a device login
\* presenting the fingerprint F an ACTIVE citizen registered with finds that
\* account and creates a new active session for it.
C30_RegisterLoginRoundTrip ==
    /\ [](\A k \in Registered :
            users[RegisteredIds[k]].device_fingerprint_hash
               \in {hash_fingerprint(f) : f \in Fingerprints})
    /\ [][\A u \in DOMAIN users, f \in Fingerprints :
            ( /\ lastAuth.pc = "idle"
              /\ lastAuth'.pc = "responded"
              /\ lastAuth'.op = "janmitra_login"
              /\ lastAuth'.fp = f
              /\ RegisteredWith(u, f)
              /\ users[u].status = ACTIVE /\ users[u].is_active ) =>
                /\ lastAuth'.code = "ok"
                /\ lastAuth'.user = u
                /\ Len(sessions') = Len(sessions) + 1
                /\ sessions'[Len(sessions')].user = u
                /\ sessions'[Len(sessions')].is_active]_vars

============================================================================
